---- MODULE Spec2Model ----
(***************************************************************************)
(* The three batch scripts of bestmusic-spotify-music:                     *)
(*   create_summary_stats.py        (script = "stats")                     *)
(*   create_network_viz.py          (script = "network")                   *)
(*   data/spr3python/create_clean_network_viz.py   (script = "clean")      *)
(* Each script is one linear pass; pc is the statement it has reached.     *)
(*                                                                         *)
(* Names (artist names, track names) are natural numbers: two names are    *)
(* the same string iff they are the same number, and the numbers are       *)
(* ordered as the strings sort.  A DataFrame is a sequence of records.     *)
(* Aggregates that pandas rounds to 2 decimals are kept in hundredths      *)
(* (6033 is 60.33), so that the rounding itself is part of the model.      *)
(***************************************************************************)
EXTENDS Integers, Sequences, FiniteSets, TLC

VARIABLES script, pc, error,
          edges_df, spotify_df, merged_df, summary_stats, files,
          top_artists, filtered_edges, sampled_edges, sampled_edges_df,
          G, artist_nodes, track_nodes,
          top_5_artists, small_edges, G_small,
          artist_positions, track_positions, tracks_per_artist, images

vars == <<script, pc, error,
          edges_df, spotify_df, merged_df, summary_stats, files,
          top_artists, filtered_edges, sampled_edges, sampled_edges_df,
          G, artist_nodes, track_nodes,
          top_5_artists, small_edges, G_small,
          artist_positions, track_positions, tracks_per_artist, images>>

statsVars == <<merged_df, summary_stats, files>>

vizVars == <<top_artists, filtered_edges, sampled_edges, sampled_edges_df,
             G, artist_nodes, track_nodes, top_5_artists, small_edges, G_small,
             artist_positions, track_positions, tracks_per_artist, images>>

(***************************************************************************)
(* Bounds of the inputs.                                                   *)
(***************************************************************************)
\* rows of the edge file read by create_summary_stats.py
MaxEdges == 3
\* rows of the metadata file
MaxMeta == 2

\* rows of the small edge files read by the two graph scripts
MaxVizEdges == 3
\* how far the longest artist of a long edge file exceeds the sample size
MaxOver == 1
\* distinct artists of the largest edge file
MaxArtists == 21

\* the selection sizes and the sample size written in the scripts
TOP_N == 20
TOP_N_SMALL == 5
TOP_N_CLEAN == 3
SAMPLE_K == 20

\* names of the small edge files; 1 is the name of an artist and of a track
VizArtists == {1, 2, 3}
VizTracks == {1, 11, 12}

\* artist names and track names of the summary-statistics inputs; track 12
\* stands for a name that differs from 11 only in case or whitespace
StatArtists == {1, 2}
StatTracks == {11, 12}
\* popularity values (integers of the range 0..100)
Pops == {0, 7, 10}

(***************************************************************************)
(* Sequence and arithmetic helpers.                                        *)
(***************************************************************************)
RECURSIVE Flatten(_)
Flatten(ss) == IF ss = <<>> THEN <<>> ELSE Head(ss) \o Flatten(Tail(ss))

RECURSIVE SumSeq(_)
SumSeq(s) == IF s = <<>> THEN 0 ELSE Head(s) + SumSeq(Tail(s))

Range(s) == {s[i] : i \in 1..Len(s)}

SetMax(S) == CHOOSE x \in S : \A y \in S : y <= x
SetMin(S) == CHOOSE x \in S : \A y \in S : x <= y

\* all sequences over S of length 0..n
SeqsUpTo(S, n) == UNION {[1..k -> S] : k \in 0..n}

\* the values of s in ascending order
RECURSIVE SortAsc(_)
SortAsc(s) ==
    IF s = <<>> THEN <<>>
    ELSE LET m == SetMin(Range(s))
             i == CHOOSE k \in 1..Len(s) : s[k] = m
         IN <<m>> \o SortAsc(SubSeq(s, 1, i - 1) \o SubSeq(s, i + 1, Len(s)))

\* the elements of a set of numbers, ascending
RECURSIVE SetToSeq(_)
SetToSeq(S) ==
    IF S = {} THEN <<>>
    ELSE LET m == SetMin(S) IN <<m>> \o SetToSeq(S \ {m})

\* the subsets of S that have k elements
RECURSIVE KSubsets(_, _)
KSubsets(S, k) ==
    IF k = 0 THEN {{}}
    ELSE UNION {{T \cup {x} : T \in KSubsets({y \in S : y > x}, k - 1)} : x \in S}

Min(a, b) == IF a <= b THEN a ELSE b

\* the largest r in lo..hi with (2r - 1)^2 * den <= 40000 * num, or lo if none:
\* r is then sqrt(num/den) in hundredths, rounded to the nearest
RECURSIVE RootHundredths(_, _, _, _)
RootHundredths(lo, hi, num, den) ==
    IF lo = hi THEN lo
    ELSE LET mid == (lo + hi + 1) \div 2
         IN IF (2 * mid - 1) * (2 * mid - 1) * den <= 40000 * num
            THEN RootHundredths(mid, hi, num, den)
            ELSE RootHundredths(lo, mid - 1, num, den)

(***************************************************************************)
(* pandas: read_csv, merge, groupby/agg, round, sort_values, to_csv.       *)
(***************************************************************************)
\* read_csv(..., header=None, names=['artist','track']): one row per line,
\* labelled 0, 1, 2, ... (the RangeIndex)
ReadEdges(lines) ==
    [i \in 1..Len(lines) |->
        [idx |-> i - 1, artist |-> lines[i][1], track |-> lines[i][2]]]

\* read_csv of the metadata file: the columns track_name and popularity
ReadMeta(lines) ==
    [i \in 1..Len(lines) |->
        [track_name |-> lines[i][1], popularity |-> lines[i][2]]]

\* a join on names folded to one case: 12 is matched as 11
MatchRowsIgnoringCase(e, right) ==
    LET fold(x) == IF x = 12 THEN 11 ELSE x
        m == SelectSeq(right, LAMBDA r : fold(r.track_name) = fold(e.track))
    IN [j \in 1..Len(m) |->
           [artist |-> e.artist, track |-> e.track,
            track_name |-> m[j].track_name, popularity |-> m[j].popularity]]

\* the right rows one left row joins to, in the right frame's order
MatchRows(e, right) ==
    LET m == SelectSeq(right, LAMBDA r : r.track_name = e.track)
    IN [j \in 1..Len(m) |->
           [artist |-> e.artist, track |-> e.track,
            track_name |-> m[j].track_name, popularity |-> m[j].popularity]]

\* a join that keeps only the first metadata row of each edge
MergeFirstMatch(left, right) ==
    Flatten([i \in 1..Len(left) |->
        SubSeq(MatchRows(left[i], right), 1, Min(1, Len(MatchRows(left[i], right))))])

\* left.merge(right, left_on='track', right_on='track_name', how='inner')
\* (the rows in the order of the left keys; only the rows, not their order,
\* reach the aggregates)
Merge(left, right) == Flatten([i \in 1..Len(left) |-> MatchRows(left[i], right)])

\* numpy round to 2 decimals of num/den (den > 0, num >= 0), in hundredths:
\* to the nearest, a tie to the even neighbour
Round2(num, den) ==
    LET x == 100 * num
        q == x \div den
        r == x % den
    IN IF 2 * r < den THEN q
       ELSE IF 2 * r > den THEN q + 1
       ELSE IF q % 2 = 0 THEN q ELSE q + 1

\* 'mean'
Mean(xs) == Round2(SumSeq(xs), Len(xs))

\* 'median': the middle value, or the mean of the two middle values
Median(xs) ==
    LET s == SortAsc(xs)
        n == Len(s)
    IN IF n % 2 = 1 THEN Round2(s[(n + 1) \div 2], 1)
       ELSE Round2(s[n \div 2] + s[n \div 2 + 1], 2)

\* the population standard deviation (ddof=0), defined for a single value
StdPopulation(xs) ==
    LET n == Len(xs)
        num == n * SumSeq([i \in 1..n |-> xs[i] * xs[i]]) - SumSeq(xs) * SumSeq(xs)
        den == n * n
    IN IF n < 1 THEN [nan |-> TRUE, v |-> 0]
       ELSE [nan |-> FALSE, v |-> RootHundredths(0, 100 * SetMax(Range(xs)), num, den)]

\* 'std': the sample standard deviation (ddof=1), NaN for fewer than 2 values.
\* variance = (n*sum(x^2) - sum(x)^2) / (n*(n-1)); the result in hundredths is
\* the r with (r - 1/2)^2 <= 10000*variance < (r + 1/2)^2.
Std(xs) ==
    LET n == Len(xs)
        num == n * SumSeq([i \in 1..n |-> xs[i] * xs[i]]) - SumSeq(xs) * SumSeq(xs)
        den == n * (n - 1)
    IN IF n < 2 THEN [nan |-> TRUE, v |-> 0]
       ELSE [nan |-> FALSE, v |-> RootHundredths(0, 100 * SetMax(Range(xs)), num, den)]

\* the aggregates with the min and max columns named the wrong way round
AggRowMinMaxSwapped(a, xs) ==
    [artist |-> a,
     track_count |-> Len(xs),
     mean_popularity |-> Mean(xs),
     median_popularity |-> Median(xs),
     std_popularity |-> Std(xs),
     min_popularity |-> Round2(SetMax(Range(xs)), 1),
     max_popularity |-> Round2(SetMin(Range(xs)), 1)]

\* the six aggregates of one group, rounded
AggRow(a, xs) ==
    [artist |-> a,
     track_count |-> Len(xs),
     mean_popularity |-> Mean(xs),
     median_popularity |-> Median(xs),
     std_popularity |-> Std(xs),
     min_popularity |-> Round2(SetMin(Range(xs)), 1),
     max_popularity |-> Round2(SetMax(Range(xs)), 1)]

\* the popularity column of one artist's group
GroupValues(df, a) ==
    LET g == SelectSeq(df, LAMBDA r : r.artist = a)
    IN [i \in 1..Len(g) |-> g[i].popularity]

\* merged_df.groupby('artist')['popularity'].agg([...]).round(2).reset_index():
\* one row per group key, keys ascending
GroupAgg(df) ==
    LET keys == SetToSeq({df[i].artist : i \in 1..Len(df)})
    IN [k \in 1..Len(keys) |-> AggRow(keys[k], GroupValues(df, keys[k]))]

\* every order of the indices S in which key is non-increasing
RECURSIVE DescOrders(_, _)
DescOrders(S, key) ==
    IF S = {} THEN {<<>>}
    ELSE LET m == SetMax({key[i] : i \in S})
             top == {i \in S : key[i] = m}
         IN UNION {{<<i>> \o r : r \in DescOrders(S \ {i}, key)} : i \in top}

\* the sort with ascending=True
SortValuesAscending(df) ==
    LET key == [i \in 1..Len(df) |-> 0 - df[i].track_count]
    IN {[k \in 1..Len(df) |-> df[o[k]]] : o \in DescOrders(1..Len(df), key)}

\* sort_values('track_count', ascending=False): the default sort is not
\* stable, so rows of equal track_count may come out in any order
SortValues(df) ==
    LET key == [i \in 1..Len(df) |-> df[i].track_count]
    IN {[k \in 1..Len(df) |-> df[o[k]]] : o \in DescOrders(1..Len(df), key)}

\* to_csv writes a missing value as the empty field
CsvNumber(x) == IF x.nan THEN <<>> ELSE <<x.v>>

FullHeader == <<"artist", "track_count", "mean_popularity", "median_popularity",
                "std_popularity", "min_popularity", "max_popularity">>
SimpleHeader == <<"artist", "count", "mean", "median">>

\* summary_stats.to_csv(output_file, sep='\t', index=False)
FullTsv(df) ==
    [header |-> FullHeader,
     body |-> [i \in 1..Len(df) |->
                 <<df[i].artist, df[i].track_count, df[i].mean_popularity,
                   df[i].median_popularity, CsvNumber(df[i].std_popularity),
                   df[i].min_popularity, df[i].max_popularity>>]]

\* simple_stats.to_csv(simple_output_file, sep='\t', index=False)
SimpleTsv(df) ==
    [header |-> SimpleHeader,
     body |-> [i \in 1..Len(df) |->
                 <<df[i].artist, df[i].track_count, df[i].mean_popularity,
                   df[i].median_popularity>>]]

NoFiles == [n \in {} |-> <<>>]

(***************************************************************************)
(* Initial states.                                                         *)
(***************************************************************************)
StatEdgeFiles == SeqsUpTo(StatArtists \X StatTracks, MaxEdges)
StatMetaFiles == SeqsUpTo(StatTracks \X Pops, MaxMeta)

NoViz ==
    /\ top_artists = <<>> /\ filtered_edges = <<>>
    /\ sampled_edges = <<>> /\ sampled_edges_df = <<>>
    /\ G = [nodes |-> <<>>, edges |-> {}]
    /\ artist_nodes = <<>> /\ track_nodes = <<>>
    /\ top_5_artists = <<>> /\ small_edges = <<>>
    /\ G_small = [nodes |-> <<>>, edges |-> {}]
    /\ artist_positions = NoFiles /\ track_positions = NoFiles
    /\ tracks_per_artist = 0
    /\ images = {}

InitStats ==
    /\ script = "stats" /\ pc = "merge" /\ error = "none"
    /\ \E e \in StatEdgeFiles : edges_df = ReadEdges(e)
    /\ \E m \in StatMetaFiles : spotify_df = ReadMeta(m)
    /\ merged_df = <<>> /\ summary_stats = <<>> /\ files = NoFiles
    /\ NoViz

(***************************************************************************)
(* create_summary_statistics                                               *)
(***************************************************************************)
\* line 24
MergeStep ==
    /\ script = "stats" /\ pc = "merge"
    /\ merged_df' = Merge(edges_df, spotify_df)
    /\ pc' = "groupby"
    /\ UNCHANGED <<script, error, edges_df, spotify_df, summary_stats, files>>
    /\ UNCHANGED vizVars

\* lines 30-44
Aggregate ==
    /\ script = "stats" /\ pc = "groupby"
    /\ summary_stats' = GroupAgg(merged_df)
    /\ pc' = "sort"
    /\ UNCHANGED <<script, error, edges_df, spotify_df, merged_df, files>>
    /\ UNCHANGED vizVars

\* line 47
SortStep ==
    /\ script = "stats" /\ pc = "sort"
    /\ summary_stats' \in SortValues(summary_stats)
    /\ pc' = "write"
    /\ UNCHANGED <<script, error, edges_df, spotify_df, merged_df, files>>
    /\ UNCHANGED vizVars

\* lines 53-54
WriteFull ==
    /\ script = "stats" /\ pc = "write"
    /\ files' = ("cluster_outcomes.tsv" :> FullTsv(summary_stats)) @@ files
    /\ pc' = "write_simple"
    /\ UNCHANGED <<script, error, edges_df, spotify_df, merged_df, summary_stats>>
    /\ UNCHANGED vizVars

\* lines 58-62
WriteSimple ==
    /\ script = "stats" /\ pc = "write_simple"
    /\ files' = ("cluster_outcomes_simple.tsv" :> SimpleTsv(summary_stats)) @@ files
    /\ pc' = "plot"
    /\ UNCHANGED <<script, error, edges_df, spotify_df, merged_df, summary_stats>>
    /\ UNCHANGED vizVars

\* lines 66-96: histogram, scatter, bar chart of head(15); all three accept an
\* empty frame
PlotStep ==
    /\ script = "stats" /\ pc = "plot"
    /\ images' = images \cup {"cluster_outcomes_plot.png"}
    /\ pc' = "insights"
    /\ UNCHANGED <<script, error, edges_df, spotify_df>>
    /\ UNCHANGED statsVars
    /\ UNCHANGED <<top_artists, filtered_edges, sampled_edges, sampled_edges_df,
                   G, artist_nodes, track_nodes, top_5_artists, small_edges,
                   G_small, artist_positions, track_positions, tracks_per_artist>>

\* lines 98-105: summary_stats.iloc[0] raises IndexError on an empty frame
PrintInsights ==
    /\ script = "stats" /\ pc = "insights"
    /\ IF Len(summary_stats) = 0
       THEN pc' = "crashed" /\ error' = "IndexError"
       ELSE pc' = "done" /\ error' = error
    /\ UNCHANGED <<script, edges_df, spotify_df>>
    /\ UNCHANGED statsVars
    /\ UNCHANGED vizVars

NextStats ==
    \/ MergeStep
    \/ Aggregate
    \/ SortStep
    \/ WriteFull
    \/ WriteSimple
    \/ PlotStep
    \/ PrintInsights

SpecStats == InitStats /\ [][NextStats]_vars

(***************************************************************************)
(* pandas and networkx as the two graph scripts use them.                  *)
(***************************************************************************)
Artists(df) == {df[i].artist : i \in 1..Len(df)}

RowsOf(df, a) == SelectSeq(df, LAMBDA r : r.artist = a)

\* edges_df['artist'].value_counts(): one entry per distinct artist, the
\* counts non-increasing; the order of artists of equal count is the sort's
ValueCounts(df) ==
    LET keys == SetToSeq(Artists(df))
        cnt == [k \in 1..Len(keys) |-> Len(RowsOf(df, keys[k]))]
    IN {[j \in 1..Len(keys) |-> [artist |-> keys[o[j]], count |-> cnt[o[j]]]] :
            o \in DescOrders(1..Len(keys), cnt)}

\* the last n entries instead of the first n
TailN(s, n) == SubSeq(s, Len(s) - Min(n, Len(s)) + 1, Len(s))

\* .head(n)
HeadN(s, n) == SubSeq(s, 1, Min(n, Len(s)))

\* top.index
IndexOf(top) == {top[i].artist : i \in 1..Len(top)}

\* df[df['artist'].isin(top.index)]
IsIn(df, top) == SelectSeq(df, LAMBDA r : r.artist \in IndexOf(top))

\* a sample drawn with replacement: a row may be drawn again
SampleWithReplacement(frame, n) ==
    {[i \in 1..n |-> [pos |-> f[i], row |-> frame[f[i]]]] :
        f \in {[i \in 1..n |-> IF i = 1 THEN j ELSE SetMax({j, i - 1})] :
                  j \in 1..Len(frame)}}

\* frame.sample(n=n, random_state=42): n rows of the frame, none twice.  Which
\* rows the seeded generator draws is not known here, so every choice of n
\* rows is possible; the rows are kept in the frame's order (the shuffle of
\* the drawn rows is not modelled).
Sample(frame, n) ==
    {SelectSeq([i \in 1..Len(frame) |-> [pos |-> i, row |-> frame[i]]],
               LAMBDA e : e.pos \notin D) :
        D \in KSubsets(1..Len(frame), Len(frame) - n)}

Rows(s) == [i \in 1..Len(s) |-> s[i].row]

\* pd.concat(frames, ignore_index=True): the rows relabelled 0, 1, 2, ...
Concat(frames) ==
    LET all == Flatten(frames)
    IN [i \in 1..Len(all) |->
           [idx |-> i - 1, artist |-> all[i].artist, track |-> all[i].track]]

\* G = nx.Graph(); for _, row in df.iterrows(): G.add_edge(row['artist'],
\* row['track']).  Each row adds its artist and then its track to the nodes
\* unless already there, so the nodes are the end points in the order of
\* their first appearance; the edges are unordered pairs (a loop is {u}).
AddEdges(df) ==
    LET ends == [k \in 1..(2 * Len(df)) |->
                    IF k % 2 = 1 THEN df[(k + 1) \div 2].artist
                    ELSE df[k \div 2].track]
        first == SelectSeq([k \in 1..Len(ends) |-> k],
                           LAMBDA k : \A j \in 1..(k - 1) : ends[j] # ends[k])
    IN [nodes |-> [i \in 1..Len(first) |-> ends[first[i]]],
        edges |-> {{df[i].artist, df[i].track} : i \in 1..Len(df)}]

\* [node for node in G.nodes() if node in top.index]
ArtistNodes(g, top) == SelectSeq(g.nodes, LAMBDA n : n \in IndexOf(top))

\* [node for node in G.nodes() if node not in top.index]
TrackNodes(g, top) == SelectSeq(g.nodes, LAMBDA n : n \notin IndexOf(top))

\* artist_idx = i // tracks_per_artist
ArtistIdx(i, tpa) == i \div tpa

\* artist_positions[artist] = (i * 2, artist_y), in tenths
ArtistPositions(nodes) ==
    [a \in Range(nodes) |->
        LET i == (CHOOSE k \in 1..Len(nodes) : nodes[k] = a) - 1
        IN <<20 * i, 10>>]

\* track_positions[track] = (artist_idx * 2 + (i % tracks_per_artist) * 0.3,
\* track_y), in tenths
TrackPositions(nodes, tpa) ==
    [t \in Range(nodes) |->
        LET i == (CHOOSE k \in 1..Len(nodes) : nodes[k] = t) - 1
        IN <<20 * ArtistIdx(i, tpa) + 3 * (i % tpa), 0>>]

(***************************************************************************)
(* The edge files of the graph scripts.                                    *)
(***************************************************************************)
\* the track of the r-th edge of artist a
TrackName(mode, a, r) ==
    IF mode = "own" THEN 100 * a + r
    ELSE IF mode = "shared" THEN 100 + r
    ELSE 100 + a

\* an edge file in which artist a has c[a] edges, the artists taking turns
EdgeLines(c, mode) ==
    LET rounds == SetMax(Range(c) \cup {0})
        turn(r) == Flatten([a \in 1..Len(c) |->
                       IF c[a] >= r THEN <<<<a, TrackName(mode, a, r)>>>> ELSE <<>>])
    IN Flatten([r \in 1..rounds |-> turn(r)])

SmallEdgeFiles == SeqsUpTo(VizArtists \X VizTracks, MaxVizEdges)

\* up to four artists, the first with about SAMPLE_K edges
LongEdgeFiles ==
    {EdgeLines(<<c1, c2, c3, c4>>, mode) :
        c1 \in (SAMPLE_K - 1)..(SAMPLE_K + MaxOver), c2 \in {0, 5, SAMPLE_K},
        c3 \in {0, 1}, c4 \in {0, 1}, mode \in {"own", "shared", "same"}}

\* n artists, artist i with n - i + 1 edges; with p > 0 artists p and p + 1
\* have the same number of edges
ManyCounts(n, p) == [i \in 1..n |-> n - i + 1 + (IF i = p + 1 THEN 1 ELSE 0)]

ManyEdgeFiles ==
    {EdgeLines(ManyCounts(n, p), "shared") :
        n \in {TOP_N_SMALL + 1} \cup (TOP_N..MaxArtists),
        p \in {0, TOP_N_SMALL, TOP_N}}

EdgeFiles(s) ==
    IF s = "network" THEN SmallEdgeFiles \cup LongEdgeFiles \cup ManyEdgeFiles
    ELSE SmallEdgeFiles \cup LongEdgeFiles

InitViz ==
    /\ script \in {"network", "clean"}
    /\ pc = "value_counts" /\ error = "none"
    /\ \E e \in EdgeFiles(script) : edges_df = ReadEdges(e)
    /\ spotify_df = <<>> /\ merged_df = <<>> /\ summary_stats = <<>>
    /\ files = NoFiles
    /\ NoViz

inputVars == <<script, edges_df, spotify_df, merged_df, summary_stats, files>>

(***************************************************************************)
(* create_network_visualization                                            *)
(***************************************************************************)
\* line 20
NetTopArtists ==
    /\ script = "network" /\ pc = "value_counts"
    /\ \E vc \in ValueCounts(edges_df) : top_artists' = HeadN(vc, TOP_N)
    /\ pc' = "filter"
    /\ UNCHANGED <<inputVars, error, filtered_edges, sampled_edges, sampled_edges_df,
                   G, artist_nodes, track_nodes, top_5_artists, small_edges, G_small,
                   artist_positions, track_positions, tracks_per_artist, images>>

\* line 24
NetFilter ==
    /\ script = "network" /\ pc = "filter"
    /\ filtered_edges' = IsIn(edges_df, top_artists)
    /\ pc' = "graph"
    /\ UNCHANGED <<inputVars, error, top_artists, sampled_edges, sampled_edges_df,
                   G, artist_nodes, track_nodes, top_5_artists, small_edges, G_small,
                   artist_positions, track_positions, tracks_per_artist, images>>

\* lines 27-31
NetGraph ==
    /\ script = "network" /\ pc = "graph"
    /\ G' = AddEdges(filtered_edges)
    /\ pc' = "draw"
    /\ UNCHANGED <<inputVars, error, top_artists, filtered_edges, sampled_edges,
                   sampled_edges_df, artist_nodes, track_nodes, top_5_artists,
                   small_edges, G_small, artist_positions, track_positions,
                   tracks_per_artist, images>>

\* lines 36-68: layout, node lists, drawing, savefig; an empty graph draws
NetDraw ==
    /\ script = "network" /\ pc = "draw"
    /\ artist_nodes' = ArtistNodes(G, top_artists)
    /\ track_nodes' = TrackNodes(G, top_artists)
    /\ images' = images \cup {"cluster_viz.png"}
    /\ pc' = "top5"
    /\ UNCHANGED <<inputVars, error, top_artists, filtered_edges, sampled_edges,
                   sampled_edges_df, G, top_5_artists, small_edges, G_small,
                   artist_positions, track_positions, tracks_per_artist>>

\* lines 74-75
NetTop5 ==
    /\ script = "network" /\ pc = "top5"
    /\ top_5_artists' = HeadN(top_artists, TOP_N_SMALL)
    /\ small_edges' = IsIn(edges_df, HeadN(top_artists, TOP_N_SMALL))
    /\ pc' = "graph_small"
    /\ UNCHANGED <<inputVars, error, top_artists, filtered_edges, sampled_edges,
                   sampled_edges_df, G, artist_nodes, track_nodes, G_small,
                   artist_positions, track_positions, tracks_per_artist, images>>

\* lines 77-79
NetGraphSmall ==
    /\ script = "network" /\ pc = "graph_small"
    /\ G_small' = AddEdges(small_edges)
    /\ pc' = "draw_small"
    /\ UNCHANGED <<inputVars, error, top_artists, filtered_edges, sampled_edges,
                   sampled_edges_df, G, artist_nodes, track_nodes, top_5_artists,
                   small_edges, artist_positions, track_positions,
                   tracks_per_artist, images>>

\* lines 81-102
NetDrawSmall ==
    /\ script = "network" /\ pc = "draw_small"
    /\ images' = images \cup {"cluster_viz_small.png"}
    /\ pc' = "done"
    /\ UNCHANGED <<inputVars, error, top_artists, filtered_edges, sampled_edges,
                   sampled_edges_df, G, artist_nodes, track_nodes, top_5_artists,
                   small_edges, G_small, artist_positions, track_positions,
                   tracks_per_artist>>

(***************************************************************************)
(* create_clean_network_visualization                                      *)
(***************************************************************************)
\* line 19
CleanTopArtists ==
    /\ script = "clean" /\ pc = "value_counts"
    /\ \E vc \in ValueCounts(edges_df) : top_artists' = HeadN(vc, TOP_N_CLEAN)
    /\ pc' = "filter"
    /\ UNCHANGED <<inputVars, error, filtered_edges, sampled_edges, sampled_edges_df,
                   G, artist_nodes, track_nodes, top_5_artists, small_edges, G_small,
                   artist_positions, track_positions, tracks_per_artist, images>>

\* lines 23-26
CleanFilter ==
    /\ script = "clean" /\ pc = "filter"
    /\ filtered_edges' = IsIn(edges_df, top_artists)
    /\ sampled_edges' = <<>>
    /\ pc' = "sample"
    /\ UNCHANGED <<inputVars, error, top_artists, sampled_edges_df,
                   G, artist_nodes, track_nodes, top_5_artists, small_edges, G_small,
                   artist_positions, track_positions, tracks_per_artist, images>>

\* lines 27-31: one turn of the loop over top_artists.index
CleanSample ==
    /\ script = "clean" /\ pc = "sample"
    /\ Len(sampled_edges) < Len(top_artists)
    /\ LET artist == top_artists[Len(sampled_edges) + 1].artist
           artist_tracks == RowsOf(filtered_edges, artist)
       IN \E sampled_tracks \in Sample(artist_tracks, Min(SAMPLE_K, Len(artist_tracks))) :
              sampled_edges' = Append(sampled_edges, Rows(sampled_tracks))
    /\ UNCHANGED <<inputVars, pc, error, top_artists, filtered_edges, sampled_edges_df,
                   G, artist_nodes, track_nodes, top_5_artists, small_edges, G_small,
                   artist_positions, track_positions, tracks_per_artist, images>>

\* line 33: pd.concat of an empty list raises ValueError
CleanConcat ==
    /\ script = "clean" /\ pc = "sample"
    /\ Len(sampled_edges) = Len(top_artists)
    /\ IF sampled_edges = <<>>
       THEN pc' = "crashed" /\ error' = "ValueError" /\ UNCHANGED sampled_edges_df
       ELSE pc' = "graph" /\ error' = error /\ sampled_edges_df' = Concat(sampled_edges)
    /\ UNCHANGED <<inputVars, top_artists, filtered_edges, sampled_edges,
                   G, artist_nodes, track_nodes, top_5_artists, small_edges, G_small,
                   artist_positions, track_positions, tracks_per_artist, images>>

\* lines 36-38
CleanGraph ==
    /\ script = "clean" /\ pc = "graph"
    /\ G' = AddEdges(sampled_edges_df)
    /\ pc' = "draw"
    /\ UNCHANGED <<inputVars, error, top_artists, filtered_edges, sampled_edges,
                   sampled_edges_df, artist_nodes, track_nodes, top_5_artists,
                   small_edges, G_small, artist_positions, track_positions,
                   tracks_per_artist, images>>

\* lines 43-91
CleanDraw ==
    /\ script = "clean" /\ pc = "draw"
    /\ artist_nodes' = ArtistNodes(G, top_artists)
    /\ track_nodes' = TrackNodes(G, top_artists)
    /\ images' = images \cup {"cluster_viz_clean.png"}
    /\ pc' = "positions"
    /\ UNCHANGED <<inputVars, error, top_artists, filtered_edges, sampled_edges,
                   sampled_edges_df, G, top_5_artists, small_edges, G_small,
                   artist_positions, track_positions, tracks_per_artist>>

\* lines 94-128: the bar chart, then the positions.  len(track_nodes) //
\* len(artist_nodes) raises ZeroDivisionError without artist nodes, and
\* i // tracks_per_artist raises it when tracks_per_artist is 0.
CleanPositions ==
    /\ script = "clean" /\ pc = "positions"
    /\ IF Len(artist_nodes) = 0
       THEN /\ pc' = "crashed" /\ error' = "ZeroDivisionError"
            /\ artist_positions' = ArtistPositions(artist_nodes)
            /\ UNCHANGED <<tracks_per_artist, track_positions>>
       ELSE /\ artist_positions' = ArtistPositions(artist_nodes)
            /\ tracks_per_artist' = Len(track_nodes) \div Len(artist_nodes)
            /\ IF Len(track_nodes) > 0 /\ Len(track_nodes) \div Len(artist_nodes) = 0
               THEN /\ pc' = "crashed" /\ error' = "ZeroDivisionError"
                    /\ UNCHANGED track_positions
               ELSE /\ pc' = "connect" /\ error' = error
                    /\ track_positions' =
                          IF Len(track_nodes) = 0 THEN NoFiles
                          ELSE TrackPositions(track_nodes,
                                              Len(track_nodes) \div Len(artist_nodes))
    /\ UNCHANGED <<inputVars, top_artists, filtered_edges, sampled_edges,
                   sampled_edges_df, G, artist_nodes, track_nodes, top_5_artists,
                   small_edges, G_small, images>>

\* lines 131-143: track_positions[row['track']] raises KeyError for a track
\* that is no key of track_positions
CleanConnections ==
    /\ script = "clean" /\ pc = "connect"
    /\ IF \E i \in 1..Len(sampled_edges_df) :
              \/ sampled_edges_df[i].artist \notin DOMAIN artist_positions
              \/ sampled_edges_df[i].track \notin DOMAIN track_positions
       THEN pc' = "crashed" /\ error' = "KeyError"
       ELSE pc' = "finish" /\ error' = error
    /\ UNCHANGED <<inputVars>>
    /\ UNCHANGED vizVars

\* lines 145-170: len(track_nodes)/len(artist_nodes), the track list, savefig
CleanFinish ==
    /\ script = "clean" /\ pc = "finish"
    /\ IF Len(artist_nodes) = 0
       THEN pc' = "crashed" /\ error' = "ZeroDivisionError" /\ UNCHANGED images
       ELSE /\ pc' = "done" /\ error' = error
            /\ images' = images \cup {"cluster_viz_dashboard.png"}
    /\ UNCHANGED <<inputVars, top_artists, filtered_edges, sampled_edges,
                   sampled_edges_df, G, artist_nodes, track_nodes, top_5_artists,
                   small_edges, G_small, artist_positions, track_positions,
                   tracks_per_artist>>

NextViz ==
    \/ NetTopArtists
    \/ NetFilter
    \/ NetGraph
    \/ NetDraw
    \/ NetTop5
    \/ NetGraphSmall
    \/ NetDrawSmall
    \/ CleanTopArtists
    \/ CleanFilter
    \/ CleanSample
    \/ CleanConcat
    \/ CleanGraph
    \/ CleanDraw
    \/ CleanPositions
    \/ CleanConnections
    \/ CleanFinish

SpecViz == InitViz /\ [][NextViz]_vars

(***************************************************************************)
(* Properties of create_summary_statistics.                                *)
(***************************************************************************)
\* the (edge, metadata row) pairs whose names are equal, counted from the inputs
JoinPairs ==
    {p \in (1..Len(edges_df)) \X (1..Len(spotify_df)) :
        edges_df[p[1]].track = spotify_df[p[2]].track_name}

JoinPairsOf(a) == {p \in JoinPairs : edges_df[p[1]].artist = a}

JoinedArtists == {edges_df[p[1]].artist : p \in JoinPairs}

Aggregated == script = "stats" /\ pc \notin {"merge", "groupby"}

Ended == pc \in {"done", "crashed"}

TrackCounts == [i \in 1..Len(summary_stats) |-> summary_stats[i].track_count]

\* C1: the track_count column sums to the number of rows of the inner join,
\* every (edge, metadata row) pair of equal names counted once.
C1_SumOfCountsIsJoinSize ==
    Aggregated =>
        /\ SumSeq(TrackCounts) = Cardinality(JoinPairs)
        /\ Len(merged_df) = Cardinality(JoinPairs)

\* a run in which one edge joined two metadata rows of the same track name
C1_Witness ==
    /\ Aggregated /\ pc = "done"
    /\ \E p \in JoinPairs : \E q \in JoinPairs : p[1] = q[1] /\ p[2] # q[2]
    /\ Cardinality(JoinPairs) > Len(edges_df)

\* C2: with an empty join the run writes both TSV files, header only, and
\* ends without an error.
C2_EmptyJoinCompletes ==
    (script = "stats" /\ pc \notin {"merge"} /\ Len(merged_df) = 0) =>
        /\ error = "none"
        /\ Ended =>
            /\ pc = "done"
            /\ DOMAIN files = {"cluster_outcomes.tsv", "cluster_outcomes_simple.tsv"}
            /\ files["cluster_outcomes.tsv"] = [header |-> FullHeader, body |-> <<>>]
            /\ files["cluster_outcomes_simple.tsv"] = [header |-> SimpleHeader, body |-> <<>>]

Written(name) == script = "stats" /\ name \in DOMAIN files

\* C4: the rows of cluster_outcomes.tsv are in non-increasing track_count order.
C4_OutputSortedByCount ==
    Written("cluster_outcomes.tsv") =>
        LET body == files["cluster_outcomes.tsv"].body
        IN /\ \A i \in 1..(Len(body) - 1) : body[i][2] >= body[i + 1][2]
           /\ Len(body) = Cardinality(JoinedArtists)

\* a written file whose rows had to be reordered: the artist that sorts first
\* by name has the smaller count
C4_Witness ==
    /\ Written("cluster_outcomes.tsv")
    /\ LET body == files["cluster_outcomes.tsv"].body
       IN /\ Len(body) = 2
          /\ body[1][2] > body[2][2]
          /\ body[1][1] > body[2][1]

\* C5: min <= mean <= max and min <= median <= max on the rounded values.
C5_MeanMedianBetweenMinMax ==
    Aggregated =>
        \A i \in 1..Len(summary_stats) :
            LET r == summary_stats[i]
            IN /\ r.track_count >= 1
               /\ r.min_popularity <= r.mean_popularity
               /\ r.mean_popularity <= r.max_popularity
               /\ r.min_popularity <= r.median_popularity
               /\ r.median_popularity <= r.max_popularity

\* a row whose mean was really rounded (it is no whole number of tenths) and
\* lies strictly between min and max
C5_Witness ==
    /\ Aggregated
    /\ \E i \in 1..Len(summary_stats) :
          LET r == summary_stats[i]
          IN /\ r.track_count = 3
             /\ r.mean_popularity % 10 # 0
             /\ r.min_popularity < r.mean_popularity
             /\ r.mean_popularity < r.max_popularity
             /\ r.median_popularity # r.mean_popularity

\* C9: a group of one row has std NaN and mean = median = min = max = the
\* row's popularity, is written out, and causes no error; a group of two or
\* more rows has a defined std >= 0.
C9_SingleRowStdIsNaN ==
    Aggregated =>
        /\ \A i \in 1..Len(summary_stats) :
              LET r == summary_stats[i]
                  xs == GroupValues(merged_df, r.artist)
              IN /\ r.track_count = 1 =>
                       /\ r.std_popularity.nan
                       /\ r.mean_popularity = 100 * xs[1]
                       /\ r.median_popularity = 100 * xs[1]
                       /\ r.min_popularity = 100 * xs[1]
                       /\ r.max_popularity = 100 * xs[1]
                 /\ r.track_count >= 2 =>
                       /\ ~r.std_popularity.nan
                       /\ r.std_popularity.v >= 0
        /\ (\E i \in 1..Len(summary_stats) : summary_stats[i].track_count = 1) =>
              /\ error = "none"
              /\ Written("cluster_outcomes.tsv") =>
                    \E k \in 1..Len(files["cluster_outcomes.tsv"].body) :
                        LET row == files["cluster_outcomes.tsv"].body[k]
                        IN row[2] = 1 /\ row[5] = <<>>

\* a finished run with a single-row group and a group of spread-out values
C9_Witness ==
    /\ Aggregated /\ pc = "done"
    /\ \E i \in 1..Len(summary_stats) : summary_stats[i].track_count = 1
    /\ \E i \in 1..Len(summary_stats) :
          /\ summary_stats[i].track_count >= 2
          /\ summary_stats[i].std_popularity.v > 0

(***************************************************************************)
(* Properties of the two graph scripts.                                    *)
(***************************************************************************)
EdgeCount(a) == Len(RowsOf(edges_df, a))

\* sel, a list of value_counts entries, is a top-n selection of the edge table
IsTopN(sel, n) ==
    /\ Len(sel) = Min(n, Cardinality(Artists(edges_df)))
    /\ Cardinality(IndexOf(sel)) = Len(sel)
    /\ IndexOf(sel) \subseteq Artists(edges_df)
    /\ \A a \in IndexOf(sel) : \A b \in Artists(edges_df) \ IndexOf(sel) :
           EdgeCount(b) <= EdgeCount(a)

\* frame holds every edge of an artist of sel, once, and no other edge
IsEdgesOf(frame, sel) ==
    /\ Range(frame) = {edges_df[i] : i \in {k \in 1..Len(edges_df) :
                                              edges_df[k].artist \in IndexOf(sel)}}
    /\ Len(frame) = Cardinality(Range(frame))

Selected == script \in {"network", "clean"} /\ pc # "value_counts"

Filtered == Selected /\ pc # "filter"

SmallDone == script = "network" /\ pc \in {"graph_small", "draw_small", "done"}

\* C6: per selected artist the sample is K distinct rows of that artist when
\* the artist has more than K edges, and all of the artist's rows otherwise.
C6_SampleSizePerArtist ==
    script = "clean" =>
        \A k \in 1..Len(sampled_edges) :
            LET a == top_artists[k].artist
                s == sampled_edges[k]
                mine == {edges_df[i] : i \in {j \in 1..Len(edges_df) :
                                                 edges_df[j].artist = a}}
            IN /\ Range(s) \subseteq mine
               /\ Cardinality({s[i].idx : i \in 1..Len(s)}) = Len(s)
               /\ IF EdgeCount(a) > SAMPLE_K
                  THEN Len(s) = SAMPLE_K
                  ELSE Len(s) = EdgeCount(a) /\ Range(s) = mine

\* every selected artist sampled: one with more than K edges, of which some
\* were left out, and one with fewer than K edges
C6_Witness ==
    /\ script = "clean" /\ pc = "done"
    /\ Len(sampled_edges) = TOP_N_CLEAN
    /\ \E k \in 1..Len(sampled_edges) :
          /\ EdgeCount(top_artists[k].artist) > SAMPLE_K
          /\ Len(sampled_edges[k]) = SAMPLE_K
    /\ \E k \in 1..Len(sampled_edges) :
          /\ EdgeCount(top_artists[k].artist) = 5
          /\ Len(sampled_edges[k]) = 5

\* C7: the selections are top-N selections (N = 20 and 5, or 3), the 5 taken
\* from the 20 are a top-5 selection of the whole table, and the filtered
\* frames hold exactly the edges of the selected artists.
C7_TopNSelection ==
    /\ (Selected /\ script = "network") => IsTopN(top_artists, TOP_N)
    /\ (Selected /\ script = "clean") => IsTopN(top_artists, TOP_N_CLEAN)
    /\ Selected =>
          \A i \in 1..Len(top_artists) :
              top_artists[i].count = EdgeCount(top_artists[i].artist)
    /\ Filtered => IsEdgesOf(filtered_edges, top_artists)
    /\ SmallDone =>
          /\ IsTopN(top_5_artists, TOP_N_SMALL)
          /\ IndexOf(top_5_artists) \subseteq IndexOf(top_artists)
          /\ IsEdgesOf(small_edges, top_5_artists)

\* a finished run over more than 20 artists in which the 20th and the 21st
\* artist have the same number of edges
C7_Witness ==
    /\ script = "network" /\ pc = "done"
    /\ Cardinality(Artists(edges_df)) > TOP_N
    /\ Len(top_artists) = TOP_N /\ Len(top_5_artists) = TOP_N_SMALL
    /\ \E a \in IndexOf(top_artists) : \E b \in Artists(edges_df) \ IndexOf(top_artists) :
          EdgeCount(a) = EdgeCount(b)
    /\ Len(small_edges) < Len(filtered_edges)
    /\ Len(filtered_edges) < Len(edges_df)

\* C8: with no edge both graph scripts end without an error.
C8_ZeroEdgesRenders ==
    (script \in {"network", "clean"} /\ Len(edges_df) = 0) =>
        /\ error = "none"
        /\ pc # "crashed"

\* C10: once the positions are computed, every end point of every sampled
\* edge has a position, tracks_per_artist is at least 1 and every track's
\* artist index is below the number of artist nodes.
C10_EndpointsHavePositions ==
    (script = "clean" /\ Len(edges_df) > 0
        /\ "cluster_viz_clean.png" \in images /\ pc # "positions") =>
        /\ error = "none"
        /\ \A i \in 1..Len(sampled_edges_df) :
              /\ sampled_edges_df[i].artist \in DOMAIN artist_positions
              /\ sampled_edges_df[i].track \in DOMAIN track_positions
        /\ tracks_per_artist >= 1
        /\ \A i \in 0..(Len(track_nodes) - 1) :
              ArtistIdx(i, tracks_per_artist) < Len(artist_nodes)

====
